---- MODULE Spec2Model ----
(***************************************************************************)
(* The asynchronous OCR job server (src/unnamed/part_000): the ocr_jobs    *)
(* table, the upload handler with its fire-and-forget background           *)
(* processing, and the status / result handlers (specification Spec); and  *)
(* the synchronous /pdf endpoint of the second server, index.js            *)
(* (specification PdfSpec).  The two servers are separate processes.       *)
(*                                                                         *)
(* Text is a sequence of one-character strings.  A nullable column is      *)
(* <<>> (SQL NULL) or <<v>> (the value v).  The columns filename and        *)
(* language (written by the INSERT only) and created_at / updated_at (wall *)
(* clock readings no statement of the server compares) are left out.       *)
(***************************************************************************)
EXTENDS Integers, Sequences, FiniteSets, TLC

\* ---------------------------------------------------------------- bounds
MaxPages == 2        \* most images pdfImgConvert.convert returns

\* the upload requests in flight together, and the client polling status / result
Uploads == {"u1", "u2"}
Readers == {"r1"}

\* the values uuidv4() returns: two uploads draw the same id or different ids
JobIds == {"j1", "j2"}
NoId == "none"

\* path.extname(originalname).toLowerCase() of the uploaded files
Exts == {".pdf", ".png", ".exe"}
NoFile == "nofile"

\* the /pdf requests of index.js
PdfRequests == {"p1", "p2"}

\* the texts the recognizer returns for one image
Texts == {<<"a">>, <<"b", "\n">>}

NULL == <<>>

VARIABLES
    db,       \* the module-level `let db`: "undefined", "opened" (table not yet created), "ready"
    jobs,     \* the ocr_jobs table: a function from the ids present to their rows
    up,       \* per upload request: the handler's and its background task's position and locals
    upResp,   \* per upload request: the HTTP responses sent, in order
    files,    \* the temporary page images on disk: <<jobId, i>> for uploads/temp_<jobId>_<i>.png
    rd,       \* per reader: the status / result request in flight and the response it got
    alive,    \* FALSE once an unhandled promise rejection has ended the process
    pdf       \* index.js: per /pdf request, the handler's position, locals and response

vars == <<db, jobs, up, upResp, files, rd, alive, pdf>>

\* ------------------------------------------------------- program literals
\* the INSERT writing the final status
InsertCompleted == "completed"

\* the status literal of the INSERT
InsertStatus == "processing"

\* the 202 response announcing a status the row does not have
AcceptedPending == "pending"

\* the status literal of the 202 response
AcceptedStatus == "processing"

\* the status literal of the UPDATE in the try block
CompletedStatus == "completed"

\* the status literal of the UPDATE in the catch block
FailedStatus == "failed"

\* the separator appended after each page's text
PageSeparator == <<"\n", "\n">>

\* alt_text keeps this many characters
AltLimit == 200

\* ------------------------------------------------------------ the store
\* INSERT INTO ocr_jobs (id, filename, status, language): the result columns
\* take their default, NULL
NewRow == [status |-> InsertStatus, result_text |-> NULL, result_json |-> NULL]

\* INSERT OR REPLACE, or a table without the primary key
NeverRejected(table, id) == FALSE

\* id TEXT PRIMARY KEY: an INSERT of an id already present is rejected
InsertRejected(table, id) == id \in DOMAIN table

Insert(table, id) ==
    [x \in DOMAIN table \cup {id} |-> IF x = id THEN NewRow ELSE table[x]]

\* UPDATE ocr_jobs SET status, result_text, result_json, updated_at WHERE id
UpdateCompleted(table, id, text, json) ==
    [x \in DOMAIN table |->
        IF x = id
        THEN [table[x] EXCEPT !.status = CompletedStatus, !.result_text = <<text>>,
                              !.result_json = <<json>>]
        ELSE table[x]]

\* a catch block that also stored the text gathered so far
UpdateFailedKeepingText(table, id) ==
    [x \in DOMAIN table |->
        IF x = id
        THEN [table[x] EXCEPT !.status = FailedStatus, !.result_text = <<<<>>>>]
        ELSE table[x]]

\* UPDATE ocr_jobs SET status, updated_at WHERE id
UpdateFailed(table, id) ==
    [x \in DOMAIN table |->
        IF x = id
        THEN [table[x] EXCEPT !.status = FailedStatus]
        ELSE table[x]]

\* ------------------------------------------------------------ JSON
\* JSON.stringify of the result array: every object becomes the list of its
\* key/value pairs in insertion order
StringifyEntry(e) ==
    IF "page" \in DOMAIN e
    THEN << <<"page", e.page>>, <<"text", e.text>> >>
    ELSE << <<"text", e.text>> >>

JSONstringify(arr) == [k \in 1..Len(arr) |-> StringifyEntry(arr[k])]

\* JSON.parse: every key/value list becomes an object again
ParseEntry(ps) ==
    [key \in {ps[k][1] : k \in 1..Len(ps)} |->
        LET last == CHOOSE k \in 1..Len(ps) :
                        ps[k][1] = key /\ \A m \in (k+1)..Len(ps) : ps[m][1] # key
        IN  ps[last][2]]

JSONparse(s) == [k \in 1..Len(s) |-> ParseEntry(s[k])]

\* ------------------------------------------------------ background locals
\* worker.recognize's data object, reduced to the key the server reads
Data(t) == [text |-> t]

\* the page's text put in front of the text gathered so far
PrependPageText(resultText, data) == data.text \o PageSeparator \o resultText

\* resultText += data.text + '\n\n'
AppendPageText(resultText, data) == resultText \o data.text \o PageSeparator

\* the loop index used as the page number
ZeroBasedPageEntry(i, data) == [page |-> i, text |-> data.text]

\* { page: i + 1, ...data }
PageEntry(i, data) == [page |-> i + 1, text |-> data.text]

\* the image branch: resultText = data.text; resultJson = [data]
ImageText(data) == data.text

ImageJson(data) == <<data>>

\* a finally block in place of the catch block
AlwaysCatch(ok) == "catch"

\* where the background task continues once db.run of the try block settles
AfterCompletedUpdate(ok) == IF ok THEN "done" ELSE "catch"

\* the path of the i-th temporary page image of a job
TempPath(jobId, i) == <<jobId, i>>

\* ------------------------------------------------------------ responses
Response(code, body) == [code |-> code, body |-> body]

Accepted(jobId) == Response(202, [jobId |-> jobId, status |-> AcceptedStatus])

NoFileUploaded == Response(400, [error |-> "No file uploaded"])

InternalError == Response(500, [error |-> "Internal server error"])

JobNotFound == Response(404, [error |-> "Job not found"])

JobNotCompleted == Response(400, [error |-> "Job not completed yet"])

\* the readiness test letting failed jobs through
OnlyProcessing(job) == job.status = "processing"

\* job.status !== 'completed'
NotCompleted(job) == job.status # "completed"

Min(a, b) == IF a < b THEN a ELSE b

\* result_text.substring(0, 200).replace(/\n/g, ' ') + (length > 200 ? '...' : '')
AltText(text) ==
    LET head == SubSeq(text, 1, Min(Len(text), AltLimit))
    IN  [k \in 1..Len(head) |-> IF head[k] = "\n" THEN " " ELSE head[k]]
        \o (IF Len(text) > AltLimit THEN <<".", ".", ".">> ELSE <<>>)

Whitespace == {" ", "\n", "\t", "\r"}

\* result_text.trim().length > 0
HasText(text) == \E k \in 1..Len(text) : text[k] \notin Whitespace

\* SELECT id, status, created_at, updated_at
StatusBody(id, job) == [id |-> id, status |-> job.status]

\* the body of the 200 response of /api/ocr/result/:id (filename and language,
\* which no statement writes after the INSERT, are left out)
ResultBody(id, job) ==
    [id |-> id,
     text |-> job.result_text[1],
     data |-> JSONparse(job.result_json[1]),
     accessibility |-> [alt_text |-> AltText(job.result_text[1]),
                        has_text |-> HasText(job.result_text[1])]]

StatusResponse(table, id) ==
    IF id \notin DOMAIN table THEN JobNotFound
    ELSE Response(200, StatusBody(id, table[id]))

ResultResponse(table, id) ==
    IF id \notin DOMAIN table THEN JobNotFound
    ELSE IF NotCompleted(table[id]) THEN JobNotCompleted
    ELSE Response(200, ResultBody(id, table[id]))

\* ------------------------------------------------------------ initial state
\* out = { file, pages: [], textExtracted: false } before anything is extracted
EmptyOut == [pages |-> <<>>, textExtracted |-> FALSE, text |-> NULL, summary |-> NULL]

IdlePdf ==
    [pc |-> "idle", cleanup |-> FALSE, tmpFile |-> FALSE, images |-> 0, i |-> 0,
     out |-> EmptyOut, prompt |-> <<>>, llmError |-> FALSE, resp |-> <<>>]

IdleUpload ==
    [pc |-> "idle", ext |-> NoFile, jobId |-> NoId, n |-> 0, i |-> 0,
     resultText |-> <<>>, resultJson |-> <<>>, error |-> "none"]

IdleReader == [pc |-> "idle", kind |-> "status", id |-> NoId, resp |-> <<>>]

Init ==
    /\ db = "undefined"
    /\ jobs = <<>>
    /\ up = [q \in Uploads |-> IdleUpload]
    /\ upResp = [q \in Uploads |-> <<>>]
    /\ files = {}
    /\ rd = [r \in Readers |-> IdleReader]
    /\ alive = TRUE
    /\ pdf = [p \in PdfRequests |-> IdlePdf]

\* ------------------------------------------------------------ start-up
\* db = await open(...)
DbOpen ==
    /\ alive /\ db = "undefined"
    /\ db' = "opened"
    /\ UNCHANGED <<jobs, up, upResp, files, rd, alive, pdf>>

\* await db.exec(CREATE TABLE IF NOT EXISTS ocr_jobs ...)
DbCreateTable ==
    /\ alive /\ db = "opened"
    /\ db' = "ready"
    /\ UNCHANGED <<jobs, up, upResp, files, rd, alive, pdf>>

\* ------------------------------------------------------------ upload
\* the locals of the try block are dead once it is left
Leave(u, pc) ==
    [u EXCEPT !.pc = pc, !.n = 0, !.i = 0, !.resultText = <<>>, !.resultJson = <<>>]

\* a catch block that answered the request as the outer one does
CatchSendsError(sent) == Append(sent, InternalError)

\* the responses of the request after the catch block of the background task:
\* console.error and db.run only, res is not used
AfterCatch(sent) == sent

\* catch (error): what was thrown, a rejected extraction call ("extraction")
\* or a rejected db.run ("store")
Caught(u, error) == [Leave(u, "catch") EXCEPT !.error = error]

Send(q, r) == upResp' = [upResp EXCEPT ![q] = Append(@, r)]

\* the handler up to its first await: the file check, the locals, db.run(INSERT)
Upload(q, file, id) ==
    /\ alive /\ up[q].pc = "idle"
    /\ IF file = NoFile
       THEN /\ Send(q, NoFileUploaded)
            /\ up' = [up EXCEPT ![q].pc = "done"]
       ELSE IF db = "undefined"
       THEN \* db.run throws a TypeError inside the try block
            /\ Send(q, InternalError)
            /\ up' = [up EXCEPT ![q].pc = "done", ![q].ext = file]
       ELSE /\ up' = [up EXCEPT ![q].pc = "insert", ![q].ext = file, ![q].jobId = id]
            /\ UNCHANGED upResp
    /\ UNCHANGED <<db, jobs, files, rd, alive, pdf>>

\* db.run(INSERT) settles; on success the 202 response is sent and the
\* background task runs up to its first await
InsertDone(q, ok) ==
    /\ alive /\ up[q].pc = "insert"
    /\ IF ok /\ db = "ready" /\ ~InsertRejected(jobs, up[q].jobId)
       THEN /\ jobs' = Insert(jobs, up[q].jobId)
            /\ Send(q, Accepted(up[q].jobId))
            /\ up' = [up EXCEPT ![q].pc = IF up[q].ext = ".pdf" THEN "convert" ELSE "ocr"]
       ELSE /\ Send(q, InternalError)
            /\ up' = [up EXCEPT ![q].pc = "done"]
            /\ UNCHANGED jobs
    /\ UNCHANGED <<db, files, rd, alive, pdf>>

\* pdfImgConvert.convert settles: with n images, or rejected
ConvertDone(q, ok, n) ==
    /\ alive /\ up[q].pc = "convert"
    /\ IF ~ok
       THEN /\ up' = [up EXCEPT ![q] = Caught(@, "extraction")]
            /\ UNCHANGED files
       ELSE IF n = 0
       THEN /\ up' = [up EXCEPT ![q].pc = "update"]
            /\ UNCHANGED files
       ELSE /\ up' = [up EXCEPT ![q].pc = "ocr", ![q].n = n, ![q].i = 0]
            /\ files' = files \cup {TempPath(up[q].jobId, 0)}
    /\ UNCHANGED <<db, jobs, upResp, rd, alive, pdf>>

\* performOCR settles: with the recognized text t, or rejected
OcrDone(q, ok, t) ==
    /\ alive /\ up[q].pc = "ocr"
    /\ IF ~ok
       THEN /\ up' = [up EXCEPT ![q] = Caught(@, "extraction")]
            /\ UNCHANGED files
       ELSE IF up[q].ext = ".pdf"
       THEN LET i == up[q].i
                more == i + 1 < up[q].n
            IN  /\ up' = [up EXCEPT
                           ![q].resultText = AppendPageText(@, Data(t)),
                           ![q].resultJson = Append(@, PageEntry(i, Data(t))),
                           ![q].i = i + 1,
                           ![q].pc = IF more THEN "ocr" ELSE "update"]
                /\ files' = (files \ {TempPath(up[q].jobId, i)})
                            \cup (IF more THEN {TempPath(up[q].jobId, i + 1)} ELSE {})
       ELSE /\ up' = [up EXCEPT ![q].resultText = ImageText(Data(t)),
                                ![q].resultJson = ImageJson(Data(t)),
                                ![q].pc = "update"]
            /\ UNCHANGED files
    /\ UNCHANGED <<db, jobs, upResp, rd, alive, pdf>>

\* db.run(UPDATE ... 'completed') settles
CompletedUpdateDone(q, ok) ==
    /\ alive /\ up[q].pc = "update"
    /\ jobs' = IF ok
               THEN UpdateCompleted(jobs, up[q].jobId, up[q].resultText,
                                    JSONstringify(up[q].resultJson))
               ELSE jobs
    /\ up' = [up EXCEPT ![q] = IF ok THEN Leave(@, AfterCompletedUpdate(ok))
                                ELSE [Caught(@, "store") EXCEPT
                                        !.pc = AfterCompletedUpdate(ok)]]
    /\ UNCHANGED <<db, upResp, files, rd, alive, pdf>>

\* db.run(UPDATE ... 'failed') of the catch block settles; its rejection is
\* an unhandled promise rejection, which ends the process or only warns
\* (--unhandled-rejections)
FailedUpdateDone(q, ok) ==
    /\ alive /\ up[q].pc = "catch"
    /\ IF ok
       THEN /\ jobs' = UpdateFailed(jobs, up[q].jobId)
            /\ up' = [up EXCEPT ![q].pc = "done"]
            /\ UNCHANGED alive
       ELSE /\ up' = [up EXCEPT ![q].pc = "rejected"]
            /\ alive' \in BOOLEAN
            /\ UNCHANGED jobs
    /\ upResp' = [upResp EXCEPT ![q] = AfterCatch(@)]
    /\ UNCHANGED <<db, files, rd, pdf>>

\* ------------------------------------------------------------ status / result
\* a read that hands a completed result out once and drops the row
ConsumeOnGet(table, id) ==
    IF id \in DOMAIN table /\ table[id].status = "completed"
    THEN [x \in DOMAIN table \ {id} |-> table[x]]
    ELSE table

\* db.get(SELECT ...) leaves the table as it is
TableAfterGet(table, id) == table

\* job.result_text.substring / .trim on a NULL column throws a TypeError
ResultThrows(table, id) ==
    /\ id \in DOMAIN table
    /\ ~NotCompleted(table[id])
    /\ (table[id].result_text = NULL \/ table[id].result_json = NULL)

\* db.get(SELECT ...) and the answer built from the row it returns.  With db
\* still undefined db.get throws a TypeError, and before CREATE TABLE has run
\* the SELECT rejects: nothing catches either (nor a throw while the answer is
\* built), so no response is sent and the rejection ends the process or only
\* warns (--unhandled-rejections)
Get(r, kind, id) ==
    /\ alive
    /\ IF db # "ready" \/ (kind = "result" /\ ResultThrows(jobs, id))
       THEN /\ rd' = [rd EXCEPT ![r] = [pc |-> "hung", kind |-> kind, id |-> id, resp |-> <<>>]]
            /\ alive' \in BOOLEAN
            /\ UNCHANGED jobs
       ELSE /\ rd' = [rd EXCEPT ![r] =
                        [pc |-> "done", kind |-> kind, id |-> id,
                         resp |-> << IF kind = "status"
                                     THEN StatusResponse(jobs, id)
                                     ELSE ResultResponse(jobs, id) >>]]
            /\ jobs' = TableAfterGet(jobs, id)
            /\ UNCHANGED alive
    /\ UNCHANGED <<db, up, upResp, files, pdf>>

Next ==
    \/ DbOpen
    \/ DbCreateTable
    \/ \E q \in Uploads, file \in Exts \cup {NoFile}, id \in JobIds : Upload(q, file, id)
    \/ \E q \in Uploads, ok \in BOOLEAN : InsertDone(q, ok)
    \/ \E q \in Uploads, ok \in BOOLEAN, n \in 0..MaxPages : ConvertDone(q, ok, n)
    \/ \E q \in Uploads, ok \in BOOLEAN, t \in Texts : OcrDone(q, ok, t)
    \/ \E q \in Uploads, ok \in BOOLEAN : CompletedUpdateDone(q, ok)
    \/ \E q \in Uploads, ok \in BOOLEAN : FailedUpdateDone(q, ok)
    \/ \E r \in Readers, kind \in {"status", "result"}, id \in JobIds : Get(r, kind, id)

Spec == Init /\ [][Next]_vars

\* ------------------------------------------------------------ index.js: /pdf
\* a text layer longer than this, trimmed, is taken as the document's text
TextLayerMin == 30

\* the summarizer's prompt keeps this many characters of the text
PromptLimit == 4000

Repeat(c, n) == [k \in 1..n |-> c]

\* the text pdfParse finds: none, one at the threshold, one above it
LayerTexts == {<<>>, <<" ">> \o Repeat("x", TextLayerMin) \o <<"\n">>,
               Repeat("y", TextLayerMin + 1)}

\* what the summarizer returns when it succeeds
Summaries == {<<"s">>}

\* parsed.text.trim().length
TrimmedLen(text) ==
    LET inked == {k \in 1..Len(text) : text[k] \notin Whitespace}
    IN  IF inked = {} THEN 0
        ELSE (CHOOSE k \in inked : \A m \in inked : m <= k)
             - (CHOOSE k \in inked : \A m \in inked : k <= m) + 1

\* parsed && parsed.text && parsed.text.trim().length > 30
LayerSufficient(text) == TrimmedLen(text) > TextLayerMin

\* { page: i+1, image, meta, ocr }
PdfPageEntry(i, ocr) == [page |-> i + 1, text |-> ocr.text]

RECURSIVE JoinTexts(_)
\* out.pages.map(p => p.ocr && p.ocr.text ? p.ocr.text : '').join('\n\n')
JoinTexts(pages) ==
    IF pages = <<>> THEN <<>>
    ELSE IF Len(pages) = 1 THEN pages[1].text
    ELSE pages[1].text \o <<"\n", "\n">> \o JoinTexts(Tail(pages))

\* (out.text || pages...join('\n\n')).slice(0, 4000)
Combined(out) ==
    LET whole == IF out.text # NULL /\ out.text[1] # <<>> THEN out.text[1]
                 ELSE JoinTexts(out.pages)
    IN  SubSeq(whole, 1, Min(Len(whole), PromptLimit))

\* llmSummarize without its try / catch
RethrowLlmError(ok) == ~ok

\* llmSummarize catches every error of g4f.call and returns null
SummarizeThrows(ok) == FALSE

\* res.json({ ok: true, result: out })
PdfOk(out) == Response(200, [ok |-> TRUE, result |-> out])

\* res.status(400).json({ ok: false, error })
PdfError == Response(400, [ok |-> FALSE])

\* the catch block of the handler
PdfFail(req) == [req EXCEPT !.pc = "done", !.resp = <<PdfError>>]

\* the handler calls llmSummarize with the prompt built from out
AskSummary(req, out) ==
    [req EXCEPT !.pc = "summarize", !.out = out, !.prompt = Combined(out)]

\* getFileFromReq: the uploaded file, or the download of ?url=, or an Error
PdfRequest(p, source) ==
    /\ pdf[p].pc = "idle"
    /\ pdf' = [pdf EXCEPT ![p] =
                 IF source = "none" THEN PdfFail(@)
                 ELSE IF source = "url"
                 THEN [@ EXCEPT !.pc = "download", !.tmpFile = TRUE]
                 ELSE [@ EXCEPT !.pc = "parse"]]
    /\ UNCHANGED <<db, jobs, up, upResp, files, rd, alive>>

\* downloadToFile settles
DownloadDone(p, ok) ==
    /\ pdf[p].pc = "download"
    /\ pdf' = [pdf EXCEPT ![p] =
                 IF ok THEN [@ EXCEPT !.pc = "parse", !.cleanup = TRUE] ELSE PdfFail(@)]
    /\ UNCHANGED <<db, jobs, up, upResp, files, rd, alive>>

\* pdfParse settles: with the text layer, or rejected.  A sufficient text layer
\* becomes out.text; otherwise pdftoppm writes n page images and the first
\* one is analyzed
ParseDone(p, ok, text, n) ==
    /\ pdf[p].pc = "parse"
    /\ pdf' = [pdf EXCEPT ![p] =
                 IF ~ok THEN PdfFail(@)
                 ELSE IF LayerSufficient(text)
                 THEN AskSummary(@, [pdf[p].out EXCEPT !.textExtracted = TRUE,
                                                      !.text = <<text>>])
                 ELSE IF n = 0
                 THEN AskSummary(@, pdf[p].out)
                 ELSE [@ EXCEPT !.pc = "analyze", !.images = n, !.i = 0]]
    /\ UNCHANGED <<db, jobs, up, upResp, files, rd, alive>>

\* analyzeImage settles
AnalyzeDone(p, ok) ==
    /\ pdf[p].pc = "analyze"
    /\ pdf' = [pdf EXCEPT ![p] = IF ok THEN [@ EXCEPT !.pc = "ocr"] ELSE PdfFail(@)]
    /\ UNCHANGED <<db, jobs, up, upResp, files, rd, alive>>

\* ocrImage settles: with the recognized text t, or rejected
PdfOcrDone(p, ok, t) ==
    /\ pdf[p].pc = "ocr"
    /\ pdf' = [pdf EXCEPT ![p] =
                 IF ~ok THEN PdfFail(@)
                 ELSE LET out == [pdf[p].out EXCEPT
                                    !.pages = Append(@, PdfPageEntry(pdf[p].i, Data(t)))]
                      IN  IF pdf[p].i + 1 < pdf[p].images
                          THEN [@ EXCEPT !.pc = "analyze", !.out = out, !.i = pdf[p].i + 1]
                          ELSE AskSummary([@ EXCEPT !.i = pdf[p].i + 1], out)]
    /\ UNCHANGED <<db, jobs, up, upResp, files, rd, alive>>

\* llmSummarize settles: out.summary is its text, or null with 'LLM error'
\* logged; the downloaded file is unlinked and the result sent
SummarizeDone(p, ok, summary) ==
    /\ pdf[p].pc = "summarize"
    /\ pdf' = [pdf EXCEPT ![p] =
                 IF SummarizeThrows(ok) THEN PdfFail(@)
                 ELSE LET out == [pdf[p].out EXCEPT
                                    !.summary = IF ok THEN <<summary>> ELSE NULL]
                      IN  [@ EXCEPT !.pc = "done", !.out = out, !.llmError = ~ok,
                                    !.tmpFile = IF pdf[p].cleanup THEN FALSE ELSE @,
                                    !.resp = <<PdfOk(out)>>]]
    /\ UNCHANGED <<db, jobs, up, upResp, files, rd, alive>>

PdfNext ==
    \/ \E p \in PdfRequests, source \in {"upload", "url", "none"} : PdfRequest(p, source)
    \/ \E p \in PdfRequests, ok \in BOOLEAN : DownloadDone(p, ok)
    \/ \E p \in PdfRequests, ok \in BOOLEAN, text \in LayerTexts, n \in 0..MaxPages :
          ParseDone(p, ok, text, n)
    \/ \E p \in PdfRequests, ok \in BOOLEAN : AnalyzeDone(p, ok)
    \/ \E p \in PdfRequests, ok \in BOOLEAN, t \in Texts : PdfOcrDone(p, ok, t)
    \/ \E p \in PdfRequests, ok \in BOOLEAN, summary \in Summaries :
          SummarizeDone(p, ok, summary)

PdfSpec == Init /\ [][PdfNext]_vars

\* ------------------------------------------------------------ properties
Terminal == {"completed", "failed"}

Statuses == {"pending", "processing"} \cup Terminal

\* the upload request q was answered 202
Has202(q) == upResp[q] # <<>> /\ upResp[q][1].code = 202

\* the background task of q is running
Running(q) == up[q].pc \in {"convert", "ocr", "update", "catch"}

\* s then t is a piece of pending -> processing -> {completed | failed}
LegalStep(s, t) ==
    \/ s = t
    \/ s = "pending" /\ t \in {"processing"} \cup Terminal
    \/ s = "processing" /\ t \in Terminal

\* the status a 200 answer of /status reports
Reported(reader) == reader.resp[1].body.status

SawStatus(reader) ==
    reader.pc = "done" /\ reader.kind = "status" /\ reader.resp[1].code = 200

\* C1: the statuses stored for a job, and those getStatus reports for it, never
\* regress along pending -> processing -> {completed | failed}, a row is never
\* removed, and a completed or failed row is never written again.
C1_StatusMonotonic ==
    [][/\ \A id \in DOMAIN jobs' : jobs'[id].status \in Statuses
       /\ \A id \in DOMAIN jobs :
            /\ id \in DOMAIN jobs'
            /\ LegalStep(jobs[id].status, jobs'[id].status)
            /\ jobs[id].status \in Terminal => jobs'[id] = jobs[id]
       /\ \A r \in Readers :
            (SawStatus(rd[r]) /\ SawStatus(rd'[r]) /\ rd[r].id = rd'[r].id)
                => LegalStep(Reported(rd[r]), Reported(rd'[r]))]_vars

C1_Witness ==
    \E a, b \in DOMAIN jobs :
        /\ jobs[a].status = "completed" /\ jobs[b].status = "failed"
        /\ \E r \in Readers : SawStatus(rd[r]) /\ Reported(rd[r]) \in Terminal

\* C2: for a job that exists, getResult answers 200 with the stored text and
\* pages exactly when the stored status is completed, and otherwise answers the
\* NotReady error, which carries no text and no page data; getStatus answers 200
\* with the stored status whatever it is.
C2_ResultOnlyWhenCompleted ==
    [][\A r \in Readers :
         (rd'[r] # rd[r] /\ rd'[r].id \in DOMAIN jobs) =>
            LET job == jobs[rd'[r].id]
                resp == rd'[r].resp[1]
            IN  /\ rd'[r].pc = "done"
                /\ rd'[r].kind = "status" =>
                      resp.code = 200 /\ resp.body.status = job.status
                /\ (rd'[r].kind = "result" /\ job.status = "completed") =>
                      /\ resp.code = 200
                      /\ <<resp.body.text>> = job.result_text
                      /\ resp.body.data = JSONparse(job.result_json[1])
                /\ (rd'[r].kind = "result" /\ job.status # "completed") =>
                      /\ resp = JobNotCompleted
                      /\ DOMAIN resp.body = {"error"}]_vars

C2_Witness ==
    \E r \in Readers :
        /\ rd[r].pc = "done" /\ rd[r].kind = "result"
        /\ rd[r].resp[1] = JobNotCompleted
        /\ rd[r].id \in DOMAIN jobs /\ jobs[rd[r].id].status = "failed"

\* C3: once the background task of an accepted job has run to its end, the
\* job's status is completed or failed.
C3_EndsTerminal ==
    \A q \in Uploads :
        (Has202(q) /\ up[q].pc \in {"done", "rejected"})
            => jobs[up[q].jobId].status \in Terminal

\* C4: in the step that sends the 202 response the stored status is pending or
\* processing and the background task has only reached its first await: no
\* conversion and no recognition of that job has finished.
C4_RespondsBeforeExtraction ==
    [][\A q \in Uploads :
         (~Has202(q) /\ Has202(q)') =>
            /\ jobs'[up'[q].jobId].status \in {"pending", "processing"}
            /\ up'[q].pc \in {"convert", "ocr"}
            /\ up'[q].i = 0 /\ up'[q].n = 0
            /\ up'[q].resultText = <<>> /\ up'[q].resultJson = <<>>]_vars

C4_Witness ==
    \E q \in Uploads :
        /\ Has202(q) /\ up[q].pc = "ocr" /\ up[q].i = 0 /\ up[q].resultJson = <<>>
        /\ jobs[up[q].jobId].status = "processing"

\* C5 as stated: the job is persisted as pending and the 202 response reports
\* "pending".
C5_Original ==
    \A q \in Uploads :
        Has202(q) => upResp[q][1].body.status = "pending"

\* C5 amended: the INSERT persists the new job with status processing, the 202
\* response reports "processing", and no row ever has status pending.
C5_PersistedProcessing ==
    [][/\ \A q \in Uploads :
            (~Has202(q) /\ Has202(q)') =>
                /\ up[q].jobId \notin DOMAIN jobs
                /\ jobs'[up[q].jobId].status = "processing"
                /\ upResp'[q] = << Response(202, [jobId |-> up[q].jobId,
                                                  status |-> "processing"]) >>
       /\ \A id \in DOMAIN jobs' : jobs'[id].status # "pending"]_vars

C5_Witness ==
    \E q \in Uploads :
        /\ Has202(q) /\ upResp[q][1].body.status = "processing"
        /\ up[q].pc = "convert"
        /\ jobs[up[q].jobId] = [status |-> "processing", result_text |-> NULL,
                                result_json |-> NULL]

\* the pages a completed row holds, as getResult parses them
PagesOf(job) == JSONparse(job.result_json[1])

SawResult(reader) ==
    reader.pc = "done" /\ reader.kind = "result" /\ reader.resp[1].code = 200

\* the accepted upload request that created job id
OwnerOf(id) == CHOOSE q \in Uploads : Has202(q) /\ up[q].jobId = id

\* C6: when the background task of a PDF completes its job, the stored pages
\* carry the page numbers 1, 2, ..., n in this order, n being the number of
\* images pdfImgConvert.convert returned; getResult hands out the same numbering.
C6_PagesNumbered ==
    [][/\ \A q \in Uploads :
            (up[q].pc = "update" /\ up[q].ext = ".pdf" /\ up'[q].pc = "done") =>
                LET pages == PagesOf(jobs'[up[q].jobId])
                IN  /\ Len(pages) = up[q].n
                    /\ \A k \in 1..Len(pages) : pages[k].page = k
       /\ \A r \in Readers :
            (SawResult(rd'[r]) /\ up[OwnerOf(rd'[r].id)].ext = ".pdf") =>
                LET data == rd'[r].resp[1].body.data
                IN  \A k \in 1..Len(data) : data[k].page = k]_vars

C6_Witness ==
    \E q \in Uploads, r \in Readers :
        /\ up[q].ext = ".pdf" /\ up[q].pc = "done" /\ Has202(q)
        /\ jobs[up[q].jobId].status = "completed"
        /\ Len(PagesOf(jobs[up[q].jobId])) = 2
        /\ SawResult(rd[r]) /\ rd[r].id = up[q].jobId

RECURSIVE ConcatTexts(_)
\* the texts of the pages, one after the other
ConcatTexts(pages) ==
    IF pages = <<>> THEN <<>> ELSE pages[1].text \o ConcatTexts(Tail(pages))

RECURSIVE ConcatSeparated(_)
\* the texts of the pages, each followed by the page separator
ConcatSeparated(pages) ==
    IF pages = <<>> THEN <<>>
    ELSE pages[1].text \o <<"\n", "\n">> \o ConcatSeparated(Tail(pages))

\* C7 as stated: the text of a completed job is the concatenation, in page
\* order, of the texts of its pages.
C7_Original ==
    \A id \in DOMAIN jobs :
        jobs[id].status = "completed" =>
            jobs[id].result_text[1] = ConcatTexts(PagesOf(jobs[id]))

\* C7 amended: the text of a completed PDF job is the concatenation, in page
\* order, of each page's text followed by "\n\n"; the text of any other
\* completed job is the text of its single page.
C7_TextIsSeparatedPages ==
    \A q \in Uploads :
        (Has202(q) /\ jobs[up[q].jobId].status = "completed") =>
            LET job == jobs[up[q].jobId]
                pages == PagesOf(job)
            IN  IF up[q].ext = ".pdf"
                THEN job.result_text[1] = ConcatSeparated(pages)
                ELSE Len(pages) = 1 /\ job.result_text[1] = pages[1].text

C7_Witness ==
    \E q \in Uploads :
        /\ Has202(q) /\ up[q].ext = ".pdf" /\ jobs[up[q].jobId].status = "completed"
        /\ LET pages == PagesOf(jobs[up[q].jobId])
           IN  Len(pages) = 2 /\ pages[1].text # pages[2].text

\* C8: a job id has at most one accepted upload and so at most one background
\* task; only that task writes the row after the INSERT, it does so once, from
\* processing to completed or failed; an upload that draws an id already
\* present is answered without changing the row.
C8_OneTerminalWriter ==
    /\ [](\A id \in JobIds :
            Cardinality({q \in Uploads :
                           up[q].jobId = id /\ (Has202(q) \/ Running(q))}) <= 1)
    /\ [][/\ \A q \in Uploads :
               (up[q].pc \in {"update", "catch"} /\ up'[q].pc = "done") =>
                   /\ Has202(q)
                   /\ jobs[up[q].jobId].status = "processing"
                   /\ jobs'[up[q].jobId].status \in Terminal
          /\ \A id \in DOMAIN jobs :
               (id \notin DOMAIN jobs' \/ jobs'[id] # jobs[id]) =>
                   \E q \in Uploads :
                       /\ Has202(q) /\ up[q].jobId = id
                       /\ up[q].pc \in {"update", "catch"} /\ up'[q].pc = "done"]_vars

C8_Witness ==
    \E q1, q2 \in Uploads :
        /\ q1 # q2 /\ up[q1].jobId = up[q2].jobId
        /\ Has202(q1) /\ up[q1].pc = "done"
        /\ upResp[q2] = <<InternalError>>
        /\ jobs[up[q1].jobId].status \in Terminal

\* the answer a call would get from the table as it is now
AnswerNow(kind, id) ==
    IF kind = "status" THEN StatusResponse(jobs, id) ELSE ResultResponse(jobs, id)

\* the reader's last answer showed a completed job
SawCompleted(reader) ==
    SawResult(reader) \/ (SawStatus(reader) /\ Reported(reader) = "completed")

\* C9: a step of the status or result handler leaves the table unchanged, and
\* an answer once given for a completed job is the answer every later call gets.
C9_ReadsIdempotent ==
    /\ [](\A r \in Readers :
            SawCompleted(rd[r]) => rd[r].resp[1] = AnswerNow(rd[r].kind, rd[r].id))
    /\ [][(up' = up /\ db' = db) => jobs' = jobs]_vars

C9_Witness ==
    \E r \in Readers, q \in Uploads :
        /\ SawResult(rd[r]) /\ rd[r].id = up[q].jobId
        /\ up[q].ext = ".pdf" /\ rd[r].resp[1].body.data # <<>>

\* C10: an uploaded .exe file is not answered 202, creates no job and starts no
\* background task.
C10_ExeRejected ==
    \A q \in Uploads :
        up[q].ext = ".exe" =>
            /\ ~Has202(q)
            /\ ~Running(q)

\* the temporary page images of job id still on disk
TempFilesOf(id) == {f \in files : f[1] = id}

\* C11: once a job is completed or failed, none of its temporary page images
\* is left on disk.
C11_NoTempFileLeft ==
    \A q \in Uploads :
        (Has202(q) /\ jobs[up[q].jobId].status \in Terminal)
            => TempFilesOf(up[q].jobId) = {}

\* C12: when llmSummarize settles, failed or not, the /pdf request is answered
\* 200 with the text and the pages extracted before the call, unchanged; after
\* a failure ('LLM error' logged) the summary is null.
C12_SummarizerFailureNotFatal ==
    [][\A p \in PdfRequests :
         (pdf[p].pc = "summarize" /\ pdf'[p].pc = "done") =>
            LET out == pdf[p].out
                res == pdf'[p].resp[1]
            IN  /\ res.code = 200 /\ res.body.ok
                /\ res.body.result.pages = out.pages
                /\ res.body.result.text = out.text
                /\ res.body.result.textExtracted = out.textExtracted
                /\ pdf'[p].llmError => res.body.result.summary = NULL
                /\ ~pdf'[p].llmError => res.body.result.summary # NULL]_vars

C12_Witness ==
    \E p \in PdfRequests :
        /\ pdf[p].pc = "done" /\ pdf[p].llmError
        /\ pdf[p].resp[1].code = 200
        /\ pdf[p].resp[1].body.result.summary = NULL
        /\ Len(pdf[p].resp[1].body.result.pages) = 2

\* the background task of the job server calls no text-layer extractor: its
\* first call for a .pdf is pdfImgConvert.convert
TextLayerTried(q) == FALSE

\* C13: a PDF job is rasterized and recognized only after its text layer has
\* been tried (and found insufficient).
C13_TextLayerFirst ==
    \A q \in Uploads :
        (up[q].ext = ".pdf" /\ up[q].pc \in {"convert", "ocr", "update"})
            => TextLayerTried(q)

\* the /pdf endpoint of index.js does try the text layer first: with a
\* sufficient text layer no page image is written, analyzed or recognized
PdfTextLayerFirst ==
    \A p \in PdfRequests :
        /\ pdf[p].out.textExtracted =>
              /\ pdf[p].out.pages = <<>> /\ pdf[p].images = 0
              /\ LayerSufficient(pdf[p].out.text[1])
        /\ pdf[p].pc \in {"analyze", "ocr"} => ~pdf[p].out.textExtracted

\* the row records why the job failed
HasReason(job) == "error" \in DOMAIN job /\ job.error # NULL

\* C14: once the catch block has run to its end after a rejected extraction
\* call, the job's status is failed and its row carries an error reason.
C14_FailureRecorded ==
    \A q \in Uploads :
        (up[q].error = "extraction" /\ up[q].pc = "done") =>
            /\ jobs[up[q].jobId].status = "failed"
            /\ HasReason(jobs[up[q].jobId])

\* C15: a status or result request for an id that has no row is answered 404.
C15_UnknownIdNotFound ==
    \A r \in Readers :
        (rd[r].pc # "idle" /\ rd[r].id \notin DOMAIN jobs)
            => rd[r].pc = "done" /\ rd[r].resp[1] = JobNotFound

\* with the table created, a request for an id that has no row is answered 404
\* and creates no row
NotFoundOnceReady ==
    [][\A r \in Readers :
         (db = "ready" /\ rd'[r] # rd[r] /\ rd'[r].id \notin DOMAIN jobs)
            => rd'[r].pc = "done" /\ rd'[r].resp[1] = JobNotFound /\ jobs' = jobs]_vars

\* the result columns of a row
ResultOf(job) == <<job.result_text, job.result_json>>

HasResult(job) == job.result_text # NULL \/ job.result_json # NULL

\* C16: a row holds result data exactly when its status is completed, and the
\* result columns are written only by the step that moves the row from
\* processing to completed.
C16_ResultIffCompleted ==
    /\ [](\A id \in DOMAIN jobs :
            /\ HasResult(jobs[id]) <=> jobs[id].status = CompletedStatus
            /\ jobs[id].status = CompletedStatus =>
                   jobs[id].result_text # NULL /\ jobs[id].result_json # NULL)
    /\ [][\A id \in DOMAIN jobs :
            ResultOf(jobs'[id]) # ResultOf(jobs[id]) =>
                /\ jobs[id].status = InsertStatus
                /\ ~HasResult(jobs[id])
                /\ jobs'[id].status = CompletedStatus]_vars

C16_Witness ==
    \E a, b \in DOMAIN jobs :
        /\ jobs[a].status = CompletedStatus /\ HasResult(jobs[a])
        /\ jobs[b].status = FailedStatus /\ ~HasResult(jobs[b])

\* C17: a step of the task of one upload writes only the row and the temporary
\* files of its own job id, and stops the task of no other upload.
C17_JobsIsolated ==
    [][\A q \in Uploads :
         up'[q] # up[q] =>
            /\ \A id \in DOMAIN jobs :
                   id # up[q].jobId => id \in DOMAIN jobs' /\ jobs'[id] = jobs[id]
            /\ \A f \in (files \ files') \cup (files' \ files) : f[1] = up[q].jobId
            /\ \A o \in Uploads \ {q} : up'[o] = up[o] /\ (Running(o) => alive')]_vars

\* with the process left running, a step of one task touches no other job
IsolatedWhileAlive ==
    [][\A q \in Uploads :
         (up'[q] # up[q] /\ alive') =>
            /\ \A id \in DOMAIN jobs :
                   id # up[q].jobId => id \in DOMAIN jobs' /\ jobs'[id] = jobs[id]
            /\ \A f \in (files \ files') \cup (files' \ files) : f[1] = up[q].jobId
            /\ \A o \in Uploads \ {q} : up'[o] = up[o]]_vars

\* C18: an upload request is answered at most once, and exactly once when its
\* handler has returned; a response once sent is never followed by another,
\* whatever the background task does; a request that fails before its row is
\* inserted gets one error response.
C18_OneResponse ==
    /\ [](\A q \in Uploads :
            /\ Len(upResp[q]) <= 1
            /\ up[q].pc \notin {"idle", "insert"} => Len(upResp[q]) = 1
            /\ (up[q].pc = "done" /\ ~Has202(q)) => upResp[q][1].code \in {400, 500})
    /\ [][\A q \in Uploads : upResp[q] # <<>> => upResp'[q] = upResp[q]]_vars

C18_Witness ==
    \E q, o \in Uploads :
        /\ Has202(q) /\ up[q].pc \in {"done", "rejected"} /\ up[q].error = "store"
        /\ Len(upResp[q]) = 1
        /\ up[o].pc = "done" /\ ~Has202(o) /\ Len(upResp[o]) = 1

\* C19: the store handle is defined when a handler calls db.run or db.get, and
\* the jobs table exists when the statement runs.
C19_StoreReadyWhenUsed ==
    [][/\ \A q \in Uploads :
            /\ (up[q].pc = "idle" /\ up'[q].pc # "idle" /\ up'[q].ext # NoFile)
                   => db # "undefined"
            /\ (up[q].pc = "insert" /\ up'[q].pc # "insert") => db = "ready"
       /\ \A r \in Readers : rd'[r] # rd[r] => db = "ready"]_vars

====
